---- MODULE Spec2Model ----
(***************************************************************************)
(* A model of juniper's response value type (juniper/src/value.rs), of its *)
(* introspection formats (juniper/src/introspection/mod.rs) and of the     *)
(* code generated for a GraphQL object                                      *)
(* (juniper_codegen/src/graphql_object/mod.rs).                             *)
(*                                                                         *)
(* SpecValue exercises the Value API: a caller builds values bottom-up on   *)
(* a stack (scalars first, then lists and objects made of the values built  *)
(* before) and applies the accessors, to_input_value and == to them.        *)
(* SpecMacro expands graphql_value! on a written literal.                   *)
(* SpecAttr parses the attributes written on an item into an Attr.          *)
(* SpecObject expands one object Definition and dispatches on its output;   *)
(* SpecMeta registers the expanded object and SpecIntrospection             *)
(* introspects a schema that holds it.                                      *)
(***************************************************************************)
EXTENDS Integers, Sequences, FiniteSets, TLC

\* The field names of the records of this module.  Every record lists its
\* fields in this order, the order in which TLC keeps them.
FieldOrder ==
    [about |-> {}, arg |-> {}, arg2 |-> {}, args |-> {}, as_dyn |-> {},
     as_dyn_graphql_value |-> {}, as_dyn_graphql_value_async |-> {},
     b |-> {}, body |-> {}, bool |-> {}, chosen |-> {}, col |-> {},
     concrete_type_name |-> {}, context |-> {}, ctx |-> {}, delim |-> {},
     description |-> {}, end |-> {}, err |-> {}, expanded |-> {}, f |-> {},
     f64 |-> {}, field |-> {}, fields |-> {}, fn |-> {}, format |-> {},
     graphql_type |-> {}, graphql_value |-> {}, graphql_value_async |-> {},
     hand |-> {}, i |-> {}, i32 |-> {}, ident |-> {}, index |-> {},
     inner |-> {}, interfaces |-> {}, is_async |-> {}, is_internal |-> {},
     itag |-> {}, item |-> {}, kind |-> {}, l |-> {}, line |-> {},
     message |-> {}, name |-> {}, names |-> {}, negzero |-> {}, o |-> {},
     ok |-> {}, op |-> {}, out |-> {}, parsed |-> {}, path |-> {},
     plain |-> {}, query |-> {}, ran |-> {}, rename_fields |-> {},
     resolve_field |-> {}, resolve_field_async |-> {}, result |-> {},
     s |-> {}, scalar |-> {}, self |-> {}, some |-> {}, start |-> {},
     str |-> {}, tag |-> {}, text |-> {}, tokens |-> {}, tt |-> {},
     twice |-> {}, ty |-> {}, type_name |-> {}, val |-> {}, value |-> {},
     via |-> {}, wild |-> {}]

VARIABLES
    stack,      \* the Values the caller holds, oldest first
    res,        \* the last call on the Value API: [op, arg, arg2, out]
    def,        \* the object Definition handed to the code generator
    gen,        \* the generated impls (output of to_tokens), or NotExpanded
    call,       \* the last call on the generated impls: [fn, field, ctx, via, out]
    attrs,      \* the attributes written on the item that declares an object
    parsed      \* what Attr::from_attrs made of them, or NotParsed

vars == <<stack, res, def, gen, call, attrs, parsed>>

valueVars == <<stack, res>>

objectVars == <<def, gen, call>>

attrVars == <<attrs, parsed>>

(***************************************************************************)
(* Bounds and input samples                                                *)
(***************************************************************************)

\* Total number of Value nodes (scalars, lists, objects) a caller holds.
MaxNodes == 3

\* i32 payloads.
I32Sample == {0, 1}

\* f64 payloads.  A finite float is kept as twice its value, so 1.0 is
\* Fin(2) and 1.5 is Fin(3); NaN and the negative zero are values of their own.
\* The sample holds 1.0 (the number of the i32 1) and NaN.
Fin(t) == [kind |-> "finite", negzero |-> FALSE, twice |-> t]

NegZero == [kind |-> "finite", negzero |-> TRUE, twice |-> 0]

NaN == [kind |-> "nan", negzero |-> FALSE, twice |-> 0]

F64Sample == {Fin(2), NaN}

StringSample == {"a"}

\* Texts of object keys.
KeyTexts == {"a", "b"}

\* The string-like key types K of Value::object<K>.
KeyKinds == {"&str", "String"}

(***************************************************************************)
(* std: f64 ==, Option                                                     *)
(***************************************************************************)

\* IEEE 754 comparison, which is what f64's PartialEq is: NaN equals
\* nothing, itself included, and the two zeros are equal.
F64Eq(a, b) == a.kind = "finite" /\ b.kind = "finite" /\ a.twice = b.twice

None == [some |-> FALSE]

Some(x) == [some |-> TRUE, val |-> x]

(***************************************************************************)
(* enum Value and its constructors                                         *)
(***************************************************************************)

null == [tag |-> "Null"]

int(i) == [i |-> i, tag |-> "Int"]

float(f) == [f |-> f, tag |-> "Float"]

\* s.as_ref().to_owned(): the owned copy of the text.
string(s) == [s |-> s, tag |-> "String"]

boolean(b) == [b |-> b, tag |-> "Boolean"]

list(l) == [l |-> l, tag |-> "List"]

\* An OrderMap is kept as the sequence of its <<key, value>> entries in
\* iteration order; its keys are pairwise distinct.
OrderMapKeys(m) == [n \in DOMAIN m |-> m[n][1]]

OrderMapHas(m, k) == \E n \in DOMAIN m : m[n][1] = k

OrderMapGet(m, k) == m[CHOOSE n \in DOMAIN m : m[n][1] = k][2]

\* OrderMap::insert: a new key goes last; a key already present keeps its
\* place and takes the new value.
OrderMapInsert(m, k, v) ==
    IF OrderMapHas(m, k)
    THEN [n \in DOMAIN m |-> IF m[n][1] = k THEN <<k, v>> ELSE m[n]]
    ELSE Append(m, <<k, v>>)

\* FromIterator for OrderMap (.collect()): the entries inserted one by one.
RECURSIVE Collect(_)
Collect(pairs) ==
    IF pairs = <<>> THEN <<>>
    ELSE LET n == Len(pairs)
         IN  OrderMapInsert(Collect(SubSeq(pairs, 1, n - 1)), pairs[n][1], pairs[n][2])

\* K: Into<String>: a key of a string-like type gives the String of its text.
KeyOf(kind, text) == [kind |-> kind, text |-> text]

IntoString(k) == k.text

\* A faulty object(): the entries are collected last to first.
object_rev(o) ==
    [o   |-> Collect([n \in DOMAIN o |->
                <<IntoString(o[Len(o) + 1 - n][1]), o[Len(o) + 1 - n][2]>>]),
     tag |-> "Object"]

\* Value::object(o): o.into_iter().map(|(k, v)| (k.into(), v)).collect()
object(o) ==
    [o   |-> Collect([n \in DOMAIN o |-> <<IntoString(o[n][1]), o[n][2]>>]),
     tag |-> "Object"]

(***************************************************************************)
(* Discriminators                                                          *)
(***************************************************************************)

is_null(v) == IF v.tag = "Null" THEN TRUE ELSE FALSE

\* A faulty as_float_value(): an Int is widened to the float of its number.
as_float_value_widening(v) ==
    CASE v.tag = "Float" -> Some(v.f)
      [] v.tag = "Int"   -> Some(Fin(2 * v.i))
      [] OTHER           -> None

as_float_value(v) == IF v.tag = "Float" THEN Some(v.f) ELSE None

as_object_value(v) == IF v.tag = "Object" THEN Some(v.o) ELSE None

\* &mut self: the call hands out the map and leaves self as it is.
as_mut_object_value(v) ==
    [out |-> IF v.tag = "Object" THEN Some(v.o) ELSE None, self |-> v]

\* A faulty as_list_value(): Null is taken for the empty list.
as_list_value_null_as_empty(v) ==
    CASE v.tag = "List" -> Some(v.l)
      [] v.tag = "Null" -> Some(<<>>)
      [] OTHER          -> None

as_list_value(v) == IF v.tag = "List" THEN Some(v.l) ELSE None

as_string_value(v) == IF v.tag = "String" THEN Some(v.s) ELSE None

(***************************************************************************)
(* impl ToInputValue for Value                                             *)
(***************************************************************************)

\* SourcePosition::new_origin() and Spanning::unlocated(item).
Origin == [col |-> 0, index |-> 0, line |-> 0]

Unlocated(item) == [end |-> Origin, item |-> item, start |-> Origin]

RECURSIVE to_input_value(_)

\* A faulty to_input_value(): a String becomes an Enum of the same text.
to_input_value_string_as_enum(v) ==
    CASE v.tag = "Null"    -> [itag |-> "Null"]
      [] v.tag = "Int"     -> [i |-> v.i, itag |-> "Int"]
      [] v.tag = "Float"   -> [f |-> v.f, itag |-> "Float"]
      [] v.tag = "String"  -> [itag |-> "Enum", s |-> v.s]
      [] v.tag = "Boolean" -> [b |-> v.b, itag |-> "Boolean"]
      [] v.tag = "List"    ->
            [itag |-> "List",
             l |-> [n \in DOMAIN v.l |-> Unlocated(to_input_value(v.l[n]))]]
      [] v.tag = "Object"  ->
            [itag |-> "Object",
             o |-> [n \in DOMAIN v.o |->
                       <<Unlocated(v.o[n][1]), Unlocated(to_input_value(v.o[n][2]))>>]]

\* A faulty to_input_value(): the elements of a List come out last to first.
to_input_value_list_rev(v) ==
    CASE v.tag = "Null"    -> [itag |-> "Null"]
      [] v.tag = "Int"     -> [i |-> v.i, itag |-> "Int"]
      [] v.tag = "Float"   -> [f |-> v.f, itag |-> "Float"]
      [] v.tag = "String"  -> [itag |-> "String", s |-> v.s]
      [] v.tag = "Boolean" -> [b |-> v.b, itag |-> "Boolean"]
      [] v.tag = "List"    ->
            [itag |-> "List",
             l |-> [n \in DOMAIN v.l |->
                       Unlocated(to_input_value(v.l[Len(v.l) + 1 - n]))]]
      [] v.tag = "Object"  ->
            [itag |-> "Object",
             o |-> [n \in DOMAIN v.o |->
                       <<Unlocated(v.o[n][1]), Unlocated(to_input_value(v.o[n][2]))>>]]

to_input_value(v) ==
    CASE v.tag = "Null"    -> [itag |-> "Null"]
      [] v.tag = "Int"     -> [i |-> v.i, itag |-> "Int"]
      [] v.tag = "Float"   -> [f |-> v.f, itag |-> "Float"]
      [] v.tag = "String"  -> [itag |-> "String", s |-> v.s]
      [] v.tag = "Boolean" -> [b |-> v.b, itag |-> "Boolean"]
      [] v.tag = "List"    ->
            [itag |-> "List",
             l |-> [n \in DOMAIN v.l |-> Unlocated(to_input_value(v.l[n]))]]
      [] v.tag = "Object"  ->
            [itag |-> "Object",
             o |-> [n \in DOMAIN v.o |->
                       <<Unlocated(v.o[n][1]), Unlocated(to_input_value(v.o[n][2]))>>]]

\* InputValue -> Value once fully resolved: the parallel variant, with the
\* location of every node dropped.  An enum or a variable left in the tree
\* has no value of its own.
RECURSIVE from_input_value(_)
from_input_value(iv) ==
    CASE iv.itag = "Null"    -> null
      [] iv.itag = "Int"     -> int(iv.i)
      [] iv.itag = "Float"   -> float(iv.f)
      [] iv.itag = "String"  -> string(iv.s)
      [] iv.itag = "Boolean" -> boolean(iv.b)
      [] iv.itag = "List"    ->
            list([n \in DOMAIN iv.l |-> from_input_value(iv.l[n].item)])
      [] iv.itag = "Object"  ->
            [o   |-> Collect([n \in DOMAIN iv.o |->
                        <<iv.o[n][1].item, from_input_value(iv.o[n][2].item)>>]),
             tag |-> "Object"]
      [] OTHER               -> null

(***************************************************************************)
(* #[derive(PartialEq)] for Value                                          *)
(***************************************************************************)

\* Same variant and equal payloads.  Vec<Value> == is by length and then
\* position by position.  OrderMap == is the hash map's: the same number of
\* entries, and every key of the left map is a key of the right one with an
\* equal value; the order of the entries is not compared.
RECURSIVE ValueEq(_, _)

\* A faulty ==: two objects are compared entry by entry in iteration order.
ValueEq_by_position(a, b) ==
    /\ a.tag = b.tag
    /\ CASE a.tag = "Null"    -> TRUE
         [] a.tag = "Int"     -> a.i = b.i
         [] a.tag = "Float"   -> F64Eq(a.f, b.f)
         [] a.tag = "String"  -> a.s = b.s
         [] a.tag = "Boolean" -> a.b = b.b
         [] a.tag = "List"    ->
               /\ Len(a.l) = Len(b.l)
               /\ \A n \in DOMAIN a.l : ValueEq(a.l[n], b.l[n])
         [] a.tag = "Object"  ->
               /\ Len(a.o) = Len(b.o)
               /\ \A n \in DOMAIN a.o :
                     /\ a.o[n][1] = b.o[n][1]
                     /\ ValueEq(a.o[n][2], b.o[n][2])

ValueEq(a, b) ==
    /\ a.tag = b.tag
    /\ CASE a.tag = "Null"    -> TRUE
         [] a.tag = "Int"     -> a.i = b.i
         [] a.tag = "Float"   -> F64Eq(a.f, b.f)
         [] a.tag = "String"  -> a.s = b.s
         [] a.tag = "Boolean" -> a.b = b.b
         [] a.tag = "List"    ->
               /\ Len(a.l) = Len(b.l)
               /\ \A n \in DOMAIN a.l : ValueEq(a.l[n], b.l[n])
         [] a.tag = "Object"  ->
               /\ Len(a.o) = Len(b.o)
               /\ \A n \in DOMAIN a.o :
                     /\ OrderMapHas(b.o, a.o[n][1])
                     /\ ValueEq(a.o[n][2], OrderMapGet(b.o, a.o[n][1]))

(***************************************************************************)
(* impl From<i32> / From<f64> for Value                                    *)
(***************************************************************************)

from_i32(i) == int(i)

from_f64(f) == float(f)

\* impl From<&str>, From<String>, From<bool> for Value.
from_str(s) == string(s)

from_string(s) == string(s)

from_bool(b) == boolean(b)

(***************************************************************************)
(* macro graphql_value!                                                    *)
(***************************************************************************)

\* Most elements of a list and most entries of an object written in one
\* invocation of the macro.
MaxArgs == 2

\* Token trees, the input of a macro: a literal of some Rust type, an
\* identifier, a punctuation character, or a delimited group of token trees.
Lit(ty, val) == [delim |-> "", inner |-> <<>>, tt |-> "lit", ty |-> ty, val |-> val]

Ident(name) == [delim |-> "", inner |-> <<>>, tt |-> "ident", ty |-> "", val |-> name]

Punct(c) == [delim |-> "", inner |-> <<>>, tt |-> "punct", ty |-> "", val |-> c]

Group(delim, inner) == [delim |-> delim, inner |-> inner, tt |-> "group", ty |-> "", val |-> ""]

IsPunct(t, c) == t.tt = "punct" /\ t.val = c

IsIdent(t, name) == t.tt = "ident" /\ t.val = name

IsGroup(t, delim) == t.tt = "group" /\ t.delim = delim

\* The pieces of a token sequence between its commas.
RECURSIVE SplitAtCommas(_)
SplitAtCommas(ts) ==
    IF ts = <<>> THEN <<<<>>>>
    ELSE LET rest == SplitAtCommas(Tail(ts))
         IN  IF IsPunct(Head(ts), ",")
             THEN <<<<>>>> \o rest
             ELSE <<<<Head(ts)>> \o rest[1]>> \o Tail(rest)

\* `$( .. ),* $(,)*`: the repetitions written, of which the last may be
\* followed by a comma.  Nothing written is no repetition.
Repetitions(ts) ==
    LET ps == SplitAtCommas(ts)
    IN  IF ts = <<>> THEN <<>>
        ELSE IF ps[Len(ps)] = <<>> THEN SubSeq(ps, 1, Len(ps) - 1)
        ELSE ps

\* `[ $($arg:tt),* $(,)* ]`: one bracketed group, each $arg one token tree.
MatchesList(ts) ==
    /\ Len(ts) = 1
    /\ IsGroup(ts[1], "[")
    /\ \A n \in DOMAIN Repetitions(ts[1].inner) : Len(Repetitions(ts[1].inner)[n]) = 1

\* `{ $($key:tt : $val:tt ),* $(,)* }`: one braced group, each repetition a
\* token tree, a colon and a token tree.
MatchesObject(ts) ==
    /\ Len(ts) = 1
    /\ IsGroup(ts[1], "{")
    /\ \A n \in DOMAIN Repetitions(ts[1].inner) :
          LET r == Repetitions(ts[1].inner)[n]
          IN  Len(r) = 3 /\ IsPunct(r[2], ":")

\* `(None)`
MatchesNone(ts) == Len(ts) = 1 /\ IsIdent(ts[1], "None")

\* -x of a numeric literal.
Negated(t) ==
    IF t.ty = "i32" THEN 0 - t.val
    ELSE IF t.val.twice = 0 THEN NegZero ELSE Fin(0 - t.val.twice)

\* `$e:expr`: the expression the tokens are, with its Rust type, if they are
\* one.  An array expression is one; a braced `key: value` list and a lone
\* None (whose Option<_> nothing fixes) are not.
RECURSIVE Expr(_)
Expr(ts) ==
    IF Len(ts) = 1 /\ ts[1].tt = "lit"
    THEN Some([ty |-> ts[1].ty, val |-> ts[1].val])
    ELSE IF Len(ts) = 2 /\ IsPunct(ts[1], "-") /\ ts[2].tt = "lit" /\ ts[2].ty \in {"i32", "f64"}
    THEN Some([ty |-> ts[2].ty, val |-> Negated(ts[2])])
    ELSE IF Len(ts) = 2 /\ IsIdent(ts[1], "Some") /\ IsGroup(ts[2], "(")
    THEN LET x == Expr(ts[2].inner)
         IN  IF x.some THEN Some([ty |-> "Option", val |-> Some(x.val)]) ELSE None
    ELSE IF Len(ts) = 1 /\ IsGroup(ts[1], "[")
    THEN Some([ty |-> "array", val |-> <<>>])
    ELSE None

\* Value::from(e): the impl From<T> for Value of the type of e, if there is
\* one.  impl From<Option<T>>: Some(v) => Value::from(v), None => null().
RECURSIVE from(_)
from(e) ==
    CASE e.ty = "&str"   -> Some(from_str(e.val))
      [] e.ty = "String" -> Some(from_string(e.val))
      [] e.ty = "bool"   -> Some(from_bool(e.val))
      [] e.ty = "i32"    -> Some(from_i32(e.val))
      [] e.ty = "f64"    -> Some(from_f64(e.val))
      [] e.ty = "Option" -> IF e.val.some THEN from(e.val.val) ELSE Some(null)
      [] OTHER           -> None

\* The key of an entry: `$key` is used as the K of Value::object<K>.
KeyExpr(t) == IF t.tt = "lit" /\ t.ty = "&str" THEN Some(KeyOf("&str", t.val)) ELSE None

\* What an invocation graphql_value!(ts) evaluates to: Some(value), or None
\* when its expansion does not compile.
RECURSIVE graphql_value(_)

\* A faulty graphql_value!: the elements of a list are taken last to first.
graphql_value_list_rev(ts) ==
    IF MatchesList(ts)
    THEN LET args == Repetitions(ts[1].inner)
             vals == [n \in DOMAIN args |-> graphql_value(args[Len(args) + 1 - n])]
         IN  IF \A n \in DOMAIN vals : vals[n].some
             THEN Some(list([n \in DOMAIN vals |-> vals[n].val]))
             ELSE None
    ELSE IF MatchesObject(ts)
    THEN LET reps == Repetitions(ts[1].inner)
             keys == [n \in DOMAIN reps |-> KeyExpr(reps[n][1])]
             vals == [n \in DOMAIN reps |-> graphql_value(<<reps[n][3]>>)]
         IN  IF \A n \in DOMAIN reps : keys[n].some /\ vals[n].some
             THEN Some(object(Collect([n \in DOMAIN reps |-> <<keys[n].val, vals[n].val>>])))
             ELSE None
    ELSE IF MatchesNone(ts)
    THEN Some(null)
    ELSE LET e == Expr(ts)
         IN  IF e.some THEN from(e.val) ELSE None

\* The rules are tried in the order written: the list, the object, None,
\* then any expression.
graphql_value(ts) ==
    IF MatchesList(ts)
    THEN LET args == Repetitions(ts[1].inner)
             vals == [n \in DOMAIN args |-> graphql_value(args[n])]
         IN  IF \A n \in DOMAIN vals : vals[n].some
             THEN Some(list([n \in DOMAIN vals |-> vals[n].val]))
             ELSE None
    ELSE IF MatchesObject(ts)
    THEN LET reps == Repetitions(ts[1].inner)
             keys == [n \in DOMAIN reps |-> KeyExpr(reps[n][1])]
             vals == [n \in DOMAIN reps |-> graphql_value(<<reps[n][3]>>)]
         IN  IF \A n \in DOMAIN reps : keys[n].some /\ vals[n].some
             THEN Some(object(Collect([n \in DOMAIN reps |-> <<keys[n].val, vals[n].val>>])))
             ELSE None
    ELSE IF MatchesNone(ts)
    THEN Some(null)
    ELSE LET e == Expr(ts)
         IN  IF e.some THEN from(e.val) ELSE None

(***************************************************************************)
(* Literals handed to graphql_value!                                       *)
(***************************************************************************)

\* A literal as it is written: its tokens, the Value its parts give when
\* built by hand with the constructors, and whether every element of a
\* list and every value of an entry in it is written as one token tree.
Written(tokens, hand, plain) == [hand |-> hand, plain |-> plain, tokens |-> tokens]

ScalarsWritten ==
    {Written(<<Lit("i32", 1)>>, int(1), TRUE),
     Written(<<Lit("f64", Fin(3))>>, float(Fin(3)), TRUE),
     Written(<<Lit("&str", "a")>>, string("a"), TRUE),
     Written(<<Lit("bool", TRUE)>>, boolean(TRUE), TRUE)}

\* -1
NegativeWritten == {Written(<<Punct("-"), Lit("i32", 1)>>, int(0 - 1), TRUE)}

NoneWritten == Written(<<Ident("None")>>, null, TRUE)

\* Some(x)
SomeWritten(w) == Written(<<Ident("Some"), Group("(", w.tokens)>>, w.hand, w.plain)

RECURSIVE JoinWithCommas(_)
JoinWithCommas(tss) ==
    IF tss = <<>> THEN <<>>
    ELSE IF Len(tss) = 1 THEN tss[1]
    ELSE tss[1] \o <<Punct(",")>> \o JoinWithCommas(Tail(tss))

Trailing(ts, comma) == IF comma /\ ts # <<>> THEN ts \o <<Punct(",")>> ELSE ts

\* [w1, w2, ..] and Value::list(vec![..]) of the parts.
ListWritten(ws, comma) ==
    Written(<<Group("[", Trailing(JoinWithCommas([n \in DOMAIN ws |-> ws[n].tokens]), comma))>>,
            list([n \in DOMAIN ws |-> ws[n].hand]),
            \A n \in DOMAIN ws : ws[n].plain /\ Len(ws[n].tokens) = 1)

\* {"k1": w1, "k2": w2, ..} and Value::object(vec![("k1", ..), ..]
\* .into_iter().collect()) of the parts.
ObjectWritten(ks, ws, comma) ==
    Written(<<Group("{", Trailing(JoinWithCommas(
                [n \in DOMAIN ws |-> <<Lit("&str", ks[n]), Punct(":")>> \o ws[n].tokens]), comma))>>,
            object(Collect([n \in DOMAIN ws |-> <<KeyOf("&str", ks[n]), ws[n].hand>>])),
            \A n \in DOMAIN ws : ws[n].plain /\ Len(ws[n].tokens) = 1)

LeavesWritten ==
    ScalarsWritten \cup NegativeWritten \cup {NoneWritten}
    \cup {SomeWritten(w) : w \in {x \in ScalarsWritten : x.hand.tag \in {"Int", "String"}}}

\* What is written inside a list or an object: scalars, None, and the forms
\* of more than one token, Some(x) and -1; lists and objects of these.
PartsWritten ==
    LET one == Written(<<Lit("i32", 1)>>, int(1), TRUE)
    IN  {one, Written(<<Lit("&str", "a")>>, string("a"), TRUE), NoneWritten,
         SomeWritten(one), Written(<<Punct("-"), Lit("i32", 1)>>, int(0 - 1), TRUE),
         ListWritten(<<one>>, FALSE), ListWritten(<<SomeWritten(one)>>, FALSE),
         ObjectWritten(<<"a">>, <<one>>, FALSE)}

\* Every literal handed to the macro.
Literals ==
    LeavesWritten
    \cup {ListWritten(ws, c) : ws \in UNION {[1..m -> PartsWritten] : m \in 0..MaxArgs}, c \in BOOLEAN}
    \cup UNION {{ObjectWritten(ks, ws, c) :
                    ks \in [1..m -> KeyTexts], ws \in [1..m -> PartsWritten], c \in BOOLEAN} :
                        m \in 0..MaxArgs}

(***************************************************************************)
(* Introspection formats                                                   *)
(***************************************************************************)

\* include_str!("./query.graphql")
INTROSPECTION_QUERY == [path |-> "./query.graphql"]

\* include_str!("./query_without_descriptions.graphql")
INTROSPECTION_QUERY_WITHOUT_DESCRIPTIONS == [path |-> "./query_without_descriptions.graphql"]

\* enum IntrospectionFormat { All, WithoutDescriptions }
IntrospectionFormat == {"All", "WithoutDescriptions"}

\* A faulty Default: the description-free format.
default_without_descriptions == "WithoutDescriptions"

\* impl Default for IntrospectionFormat
default == "All"

\* The document that is executed for a format.
introspection_query(format) ==
    CASE format = "All"                 -> INTROSPECTION_QUERY
      [] format = "WithoutDescriptions" -> INTROSPECTION_QUERY_WITHOUT_DESCRIPTIONS

NotExpanded == [expanded |-> FALSE]

(***************************************************************************)
(* Attr: the arguments of #[graphql] / #[graphql_object] on an object      *)
(***************************************************************************)

\* Most arguments written on one item, over all of its attributes.
MaxAttrArgs == 2

NotParsed == [parsed |-> FALSE]

\* syn::Result
Ok(x) == [ok |-> TRUE, val |-> x]

Err(e) == [err |-> e, ok |-> FALSE]

\* err::dup_arg(span) and err::unknown_arg(span, name); the span, the place
\* the error points at, is left out.
dup_arg == [kind |-> "dup_arg"]

unknown_arg == [kind |-> "unknown_arg"]

\* SpanContainer::new(ident.span(), Some(val.span()), val): a value and the
\* argument name it was given under.
SpanContainer(ident, val) == [ident |-> ident, val |-> val]

\* Attr::default()
AttrDefault ==
    [context |-> None, description |-> None, interfaces |-> {}, is_internal |-> FALSE,
     name |-> None, rename_fields |-> None, scalar |-> None]

\* A faulty none_or_else: the value given last silently replaces the one
\* given before.
none_or_else_overwriting(old, new) == Ok(Some(new))

\* field.replace(new).none_or_else(|_| err::dup_arg(..)): the field takes
\* the new value, and a value that was there before is an error.
none_or_else(old, new) == IF old.some THEN Err(dup_arg) ELSE Ok(Some(new))

\* out.interfaces.replace(..).none_or_else(|_| err::dup_arg(iface_span)) for
\* each listed type in turn; two containers are the same element of the
\* HashSet when they hold the same type.
RECURSIVE replace_interfaces(_, _, _)
replace_interfaces(set, ident, ifaces) ==
    IF ifaces = <<>> THEN Ok(set)
    ELSE IF \E x \in set : x.val = Head(ifaces)
    THEN Err(dup_arg)
    ELSE replace_interfaces(set \cup {SpanContainer(ident, Head(ifaces))}, ident, Tail(ifaces))

\* One turn of the loop of Attr::parse: the argument named a.ident.
parse_arg(out, a) ==
    LET c == SpanContainer(a.ident, a.val)
    IN  CASE a.ident = "name" ->
                LET r == none_or_else(out.name, c)
                IN  IF r.ok THEN Ok([out EXCEPT !.name = r.val]) ELSE r
          [] a.ident \in {"desc", "description"} ->
                LET r == none_or_else(out.description, c)
                IN  IF r.ok THEN Ok([out EXCEPT !.description = r.val]) ELSE r
          [] a.ident \in {"ctx", "context", "Context"} ->
                LET r == none_or_else(out.context, c)
                IN  IF r.ok THEN Ok([out EXCEPT !.context = r.val]) ELSE r
          [] a.ident \in {"scalar", "Scalar", "ScalarValue"} ->
                LET r == none_or_else(out.scalar, c)
                IN  IF r.ok THEN Ok([out EXCEPT !.scalar = r.val]) ELSE r
          [] a.ident \in {"impl", "implements", "interfaces"} ->
                LET r == replace_interfaces(out.interfaces, a.ident, a.val)
                IN  IF r.ok THEN Ok([out EXCEPT !.interfaces = r.val]) ELSE r
          [] a.ident = "rename_all" ->
                LET r == none_or_else(out.rename_fields, c)
                IN  IF r.ok THEN Ok([out EXCEPT !.rename_fields = r.val]) ELSE r
          [] a.ident = "internal" ->
                Ok([out EXCEPT !.is_internal = TRUE])
          [] OTHER ->
                Err(unknown_arg)

RECURSIVE parse_from(_, _)
parse_from(out, input) ==
    IF input = <<>> THEN Ok(out)
    ELSE LET r == parse_arg(out, Head(input))
         IN  IF r.ok THEN parse_from(r.val, Tail(input)) ELSE r

\* impl Parse for Attr
parse(input) == parse_from(AttrDefault, input)

\* try_merge_opt!(field: self, another): a value of self goes into the field
\* of another, which must be empty.
try_merge_opt(self, another) ==
    IF self.some THEN none_or_else(another, self.val) ELSE Ok(another)

\* try_merge_hashset!(field: self, another => span_joined): each element of
\* self goes into the set of another, which must not hold it.
try_merge_hashset(self, another) ==
    IF \E x \in self, y \in another : x.val = y.val
    THEN Err(dup_arg)
    ELSE Ok(another \cup self)

\* Attr::try_merge
try_merge(self, another) ==
    LET name          == try_merge_opt(self.name, another.name)
        description   == try_merge_opt(self.description, another.description)
        context       == try_merge_opt(self.context, another.context)
        scalar        == try_merge_opt(self.scalar, another.scalar)
        interfaces    == try_merge_hashset(self.interfaces, another.interfaces)
        rename_fields == try_merge_opt(self.rename_fields, another.rename_fields)
    IN  IF /\ name.ok /\ description.ok /\ context.ok
           /\ scalar.ok /\ interfaces.ok /\ rename_fields.ok
        THEN Ok([context |-> context.val, description |-> description.val,
                 interfaces |-> interfaces.val, is_internal |-> self.is_internal \/ another.is_internal,
                 name |-> name.val, rename_fields |-> rename_fields.val,
                 scalar |-> scalar.val])
        ELSE Err(dup_arg)

\* filter_attrs(name, attrs): the attributes of the item that are #[name(..)].
filter_attrs(name, as) ==
    LET Named(a) == a.path = name
    IN  SelectSeq(as, Named)

\* get_doc_comment(attrs): the text of the doc comment of the item, if it
\* has one.  An item carries at most one line of it here.
get_doc_comment(as) ==
    LET IsDoc(a) == a.path = "doc"
        docs     == SelectSeq(as, IsDoc)
    IN  IF docs = <<>> THEN None ELSE Some(SpanContainer("doc", docs[1].text))

\* .map(|attr| attr.parse_args()).try_fold(Self::default(), |prev, curr|
\* prev.try_merge(curr?))
RECURSIVE try_fold(_, _)
try_fold(prev, as) ==
    IF as = <<>> THEN Ok(prev)
    ELSE LET curr == parse(Head(as).args)
         IN  IF ~curr.ok THEN curr
             ELSE LET merged == try_merge(prev, curr.val)
                  IN  IF merged.ok THEN try_fold(merged.val, Tail(as)) ELSE merged

\* A faulty from_attrs: the doc comment, when there is one, is the
\* description whatever the attributes say.
from_attrs_doc_first(name, as) ==
    LET attr == try_fold(AttrDefault, filter_attrs(name, as))
    IN  IF ~attr.ok THEN attr
        ELSE IF get_doc_comment(as).some
        THEN Ok([attr.val EXCEPT !.description = get_doc_comment(as)])
        ELSE attr

\* Attr::from_attrs
from_attrs(name, as) ==
    LET attr == try_fold(AttrDefault, filter_attrs(name, as))
    IN  IF ~attr.ok THEN attr
        ELSE IF ~attr.val.description.some
        THEN Ok([attr.val EXCEPT !.description = get_doc_comment(as)])
        ELSE attr

\* The attributes written on an item.
Arg(ident, val) == [ident |-> ident, val |-> val]

ArgSample ==
    {Arg("name", "Human"), Arg("name", "Person"),
     Arg("desc", "by desc"), Arg("description", "by description"),
     Arg("ctx", "Ctx"), Arg("Context", "Ctx"),
     Arg("scalar", "S"), Arg("ScalarValue", "S"),
     Arg("impl", <<"Character">>), Arg("interfaces", <<"Node", "Character">>),
     Arg("implements", <<"Node", "Node">>),
     Arg("rename_all", "none"), Arg("internal", ""), Arg("unknown", "")}

Attribute(path, args, text) == [args |-> args, path |-> path, text |-> text]

\* The arguments as, written in attributes that end after the arguments
\* numbered in cuts and after the last one.
RECURSIVE AttributesOf(_, _, _)
AttributesOf(as, cuts, lo) ==
    IF lo > Len(as) THEN <<>>
    ELSE LET hi == CHOOSE n \in lo..Len(as) :
                      /\ n \in cuts \cup {Len(as)}
                      /\ \A m \in lo..(n - 1) : m \notin cuts
         IN  <<Attribute("graphql", SubSeq(as, lo, hi), "")>>
             \o AttributesOf(as, cuts, hi + 1)

\* Every item: up to MaxAttrArgs arguments in one attribute or several,
\* under a doc comment or none.
Items ==
    {doc \o AttributesOf(as, cuts, 1) :
        doc \in {<<>>, <<Attribute("doc", <<>>, "by doc")>>},
        as \in UNION {[1..m -> ArgSample] : m \in 0..MaxAttrArgs},
        cuts \in SUBSET (1..(MaxAttrArgs - 1))}

(***************************************************************************)
(* Code generation for a GraphQL object: Definition and its impls          *)
(***************************************************************************)

\* Longest field list of a Definition.
MaxFields == 2

\* GraphQL names of fields; every sample Definition declares some of them.
FieldNames == {"id", "name", "friends"}

\* Rust type of the object, and the names it may be given in the schema.
TypeSample == {"Human"}

NameSample == {"Human", "Person"}

\* Interface types an object may declare.
InterfaceSample == {"Character", "Node"}

\* Context values a resolution may run with.
ContextSample == {"ctx1", "ctx2"}

\* What a user's resolver may return: Ok(value) or Err(field error).
ResolverResults ==
    {[ok |-> TRUE, value |-> "v"], [message |-> "resolver failed", ok |-> FALSE]}

FieldDefinitions == [is_async : BOOLEAN, name : FieldNames]

SeqsUpTo(S, n) == UNION {[1..m -> S] : m \in 0..n}

\* struct Definition: the fields carry pairwise different names.
Definitions ==
    {[fields |-> fs, interfaces |-> is, name |-> n, ty |-> t] :
        n \in NameSample, t \in TypeSample,
        fs \in {q \in SeqsUpTo(FieldDefinitions, MaxFields) :
                    \A a, b \in DOMAIN q : a # b => q[a].name # q[b].name},
        is \in SUBSET InterfaceSample}

\* One arm of a generated `match field { .. }`.
Arm(names, wild, body, fld) ==
    [body |-> body, field |-> fld, names |-> names, wild |-> wild]

\* field::Definition::method_resolve_field_tokens: the arm running the
\* resolver of a field that is not async; nothing for an async one.
method_resolve_field_tokens(f) ==
    IF f.is_async THEN None ELSE Some(Arm({f.name}, FALSE, "resolve", f.name))

\* field::Definition::method_resolve_field_async_tokens: the arm running the
\* resolver of any field, async or not.
method_resolve_field_async_tokens(f) == Arm({f.name}, FALSE, "resolve", f.name)

\* field::Definition::method_resolve_field_panic_async_field_tokens(&names).
method_resolve_field_panic_async_field_tokens(names) ==
    Arm({names[n] : n \in DOMAIN names}, FALSE, "panic_async_field", "")

\* `_ => #no_field_panic`.
method_resolve_field_panic_no_field_tokens == Arm({}, TRUE, "panic_no_field", "")

\* What iter().filter_map(..) keeps of the Options made from a sequence: the
\* payloads of the Some, in order.
RECURSIVE FilterMap(_)
FilterMap(q) ==
    IF q = <<>> THEN <<>>
    ELSE (IF Head(q).some THEN <<Head(q).val>> ELSE <<>>) \o FilterMap(Tail(q))

fields_resolvers(d) ==
    FilterMap([n \in DOMAIN d.fields |-> method_resolve_field_tokens(d.fields[n])])

AsyncName(f) == IF f.is_async THEN Some(f.name) ELSE None

\* A faulty async_fields_panic: the names of the fields that are not async.
async_fields_panic_of_sync(d) ==
    LET SyncName(f) == IF f.is_async THEN None ELSE Some(f.name)
        names == FilterMap([n \in DOMAIN d.fields |-> SyncName(d.fields[n])])
    IN  IF names # <<>>
        THEN Some(method_resolve_field_panic_async_field_tokens(names))
        ELSE None

async_fields_panic(d) ==
    LET names == FilterMap([n \in DOMAIN d.fields |-> AsyncName(d.fields[n])])
    IN  IF names # <<>>
        THEN Some(method_resolve_field_panic_async_field_tokens(names))
        ELSE None

OptionArm(o) == IF o.some THEN <<o.val>> ELSE <<>>

\* The texts of the interface types, quote!(#ty).to_string(), from the
\* least to the greatest of String's order.
InterfaceTexts == <<"Character", "Node">>

\* a.cmp(&b) of two texts is Less.
TextLess(a, b) ==
    (CHOOSE n \in DOMAIN InterfaceTexts : InterfaceTexts[n] = a)
        < (CHOOSE n \in DOMAIN InterfaceTexts : InterfaceTexts[n] = b)

\* The orders in which self.interfaces.iter() may yield the elements of a
\* HashSet: any one.
IterOrders(S) ==
    {q \in [1..Cardinality(S) -> S] : \A a, b \in DOMAIN q : a # b => q[a] # q[b]}

\* One element put in its place among elements already sorted.
RECURSIVE InsertSorted(_, _)
InsertSorted(q, x) ==
    IF q = <<>> THEN <<x>>
    ELSE IF TextLess(x, Head(q)) THEN <<x>> \o q
    ELSE <<Head(q)>> \o InsertSorted(Tail(q), x)

\* interface_tys.sort_unstable_by(|a, b| text of a .cmp( text of b ))
RECURSIVE sort_unstable_by(_)
sort_unstable_by(q) ==
    IF q = <<>> THEN <<>>
    ELSE InsertSorted(sort_unstable_by(SubSeq(q, 1, Len(q) - 1)), q[Len(q)])

\* A faulty impl GraphQLType: the interfaces are registered as the HashSet
\* yields them.
impl_graphql_type_tokens_unsorted(d, iter) ==
    [interfaces |-> IF iter # <<>> THEN Some(iter) ELSE None,
     name       |-> Some(d.name)]

\* impl GraphQLType: name(), and in meta() the `.interfaces(&[..])` call with
\* the interface types sorted by their text, or no such call when there is
\* none.  iter is the order in which self.interfaces.iter() yields them.
impl_graphql_type_tokens(d, iter) ==
    [interfaces |-> LET interface_tys == sort_unstable_by(iter)
                    IN  IF interface_tys # <<>> THEN Some(interface_tys) ELSE None,
     name       |-> Some(d.name)]

\* A faulty impl GraphQLValue: concrete_type_name gives the Rust type.
impl_graphql_value_tokens_rust_type(d) ==
    [concrete_type_name |-> d.ty,
     resolve_field      |-> fields_resolvers(d)
                              \o OptionArm(async_fields_panic(d))
                              \o <<method_resolve_field_panic_no_field_tokens>>,
     type_name          |-> "GraphQLType::name"]

\* impl GraphQLValue: type_name, resolve_field's arms in the order written,
\* concrete_type_name.
impl_graphql_value_tokens(d) ==
    [concrete_type_name |-> d.name,
     resolve_field      |-> fields_resolvers(d)
                              \o OptionArm(async_fields_panic(d))
                              \o <<method_resolve_field_panic_no_field_tokens>>,
     type_name          |-> "GraphQLType::name"]

\* A faulty impl GraphQLValueAsync: the arms of resolve_field are used, so
\* an async field has no resolver arm.
impl_graphql_value_async_tokens_sync_only(d) ==
    [resolve_field_async |->
        fields_resolvers(d) \o <<method_resolve_field_panic_no_field_tokens>>]

\* impl GraphQLValueAsync: resolve_field_async's arms.
impl_graphql_value_async_tokens(d) ==
    [resolve_field_async |->
        [n \in DOMAIN d.fields |-> method_resolve_field_async_tokens(d.fields[n])]
        \o <<method_resolve_field_panic_no_field_tokens>>]

\* A faulty impl_as_dyn_graphql_value_tokens: the early return is taken when
\* the object has interfaces.
impl_as_dyn_graphql_value_tokens_inverted(d) ==
    IF d.interfaces # {}
    THEN None
    ELSE Some([as_dyn_graphql_value |-> "self", as_dyn_graphql_value_async |-> "self"])

\* impl AsDynGraphQLValue, generated only for an implementer of interfaces:
\* both views are `self`.
impl_as_dyn_graphql_value_tokens(d) ==
    IF d.interfaces = {}
    THEN None
    ELSE Some([as_dyn_graphql_value |-> "self", as_dyn_graphql_value_async |-> "self"])

\* impl ToTokens for Definition<Query>.
to_tokens(d, iter) ==
    [as_dyn              |-> impl_as_dyn_graphql_value_tokens(d),
     expanded            |-> TRUE,
     graphql_type        |-> impl_graphql_type_tokens(d, iter),
     graphql_value       |-> impl_graphql_value_tokens(d),
     graphql_value_async |-> impl_graphql_value_async_tokens(d)]

(***************************************************************************)
(* The generated code at run time                                          *)
(***************************************************************************)

\* `match field`: the first arm whose pattern covers the name.
Matching(arms, field) ==
    arms[CHOOSE n \in DOMAIN arms :
            /\ arms[n].wild \/ field \in arms[n].names
            /\ \A m \in 1..(n - 1) : ~(arms[m].wild \/ field \in arms[m].names)]

\* What taking an arm does: a resolver arm runs the field's resolver and
\* returns its ExecutionResult; the two other arms panic, so the call
\* returns nothing and no resolver has run.
Taken(arm, r) ==
    CASE arm.body = "resolve" ->
            [about |-> "", kind |-> "returned", ran |-> arm.field, result |-> Some(r)]
      [] arm.body = "panic_async_field" ->
            [about |-> "async_field", kind |-> "panic", ran |-> "", result |-> None]
      [] arm.body = "panic_no_field" ->
            [about |-> "no_field", kind |-> "panic", ran |-> "", result |-> None]

NoOutcome == [about |-> "", kind |-> "none", ran |-> "", result |-> None]

NoObjectCall == [ctx |-> "", field |-> "", fn |-> "none", out |-> NoOutcome, via |-> ""]

ObjectCall(fn, field, ctx, via, out) ==
    [ctx |-> ctx, field |-> field, fn |-> fn, out |-> out, via |-> via]

\* A panic unwinds the caller: nothing more is called after it.
Panicked == call.fn \in {"resolve_field", "resolve_field_async"} /\ call.out.kind = "panic"

\* The ways a value is reached: as its own type, or as one of the interfaces
\* it implements, through as_dyn_graphql_value(_async), which takes the
\* AsDynGraphQLValue impl.
Reachable(via) ==
    /\ gen.expanded
    /\ ~Panicked
    /\ \/ via = "Self"
       \/ via \in def.interfaces /\ gen.as_dyn.some

Vias == {"Self"} \cup InterfaceSample

DeclaredNames(d) == {d.fields[n].name : n \in DOMAIN d.fields}

AsyncNames(d) == {d.fields[n].name : n \in {m \in DOMAIN d.fields : d.fields[m].is_async}}

(***************************************************************************)
(* The caller of the Value API                                             *)
(***************************************************************************)

RECURSIVE Size(_)
Size(v) ==
    CASE v.tag = "List"   -> 1 + (LET RECURSIVE Sum(_)
                                      Sum(n) == IF n = 0 THEN 0 ELSE Size(v.l[n]) + Sum(n - 1)
                                  IN  Sum(Len(v.l)))
      [] v.tag = "Object" -> 1 + (LET RECURSIVE Sum(_)
                                      Sum(n) == IF n = 0 THEN 0 ELSE Size(v.o[n][2]) + Sum(n - 1)
                                  IN  Sum(Len(v.o)))
      [] OTHER            -> 1

RECURSIVE TotalSize(_)
TotalSize(s) == IF s = <<>> THEN 0 ELSE Size(Head(s)) + TotalSize(Tail(s))

Top == stack[Len(stack)]

LastN(n) == SubSeq(stack, Len(stack) - n + 1, Len(stack))

ButLastN(n) == SubSeq(stack, 1, Len(stack) - n)

Ret(op, arg, arg2, out) == [arg |-> arg, arg2 |-> arg2, op |-> op, out |-> out]

NoCall == Ret("none", null, null, null)

\* Objects a caller may already hold when it starts: every order of up to
\* two keys over two payloads.
HeldScalars == {int(0), int(1)}

HeldObjects ==
    {[o |-> <<>>, tag |-> "Object"]}
    \cup {[o |-> <<<<k, x>>>>, tag |-> "Object"] : k \in KeyTexts, x \in HeldScalars}
    \cup {[o |-> <<<<k[1], x>>, <<k[2], y>>>>, tag |-> "Object"] :
            k \in {kk \in KeyTexts \X KeyTexts : kk[1] # kk[2]},
            x \in HeldScalars, y \in HeldScalars}

\* No object is being generated while the Value API is exercised.
InitValue ==
    /\ stack \in {<<>>} \cup {<<a, b>> : a \in HeldObjects, b \in HeldObjects}
    /\ res = NoCall
    /\ def = [fields |-> <<>>, interfaces |-> {}, name |-> "", ty |-> ""]
    /\ gen = NotExpanded
    /\ call = NoObjectCall
    /\ attrs = <<>>
    /\ parsed = NotParsed

Push(v, r) ==
    /\ TotalSize(stack) < MaxNodes
    /\ stack' = Append(stack, v)
    /\ res' = r
    /\ UNCHANGED <<objectVars, attrVars>>

CallNull == Push(null, Ret("null", null, null, null))

CallInt == \E i \in I32Sample : Push(int(i), Ret("int", [i32 |-> i], null, int(i)))

CallFloat == \E f \in F64Sample : Push(float(f), Ret("float", [f64 |-> f], null, float(f)))

CallString == \E s \in StringSample : Push(string(s), Ret("string", [str |-> s], null, string(s)))

CallBoolean == \E b \in BOOLEAN : Push(boolean(b), Ret("boolean", [bool |-> b], null, boolean(b)))

CallFromI32 == \E i \in I32Sample : Push(from_i32(i), Ret("from_i32", [i32 |-> i], null, from_i32(i)))

CallFromF64 == \E f \in F64Sample : Push(from_f64(f), Ret("from_f64", [f64 |-> f], null, from_f64(f)))

\* Value::list(vec![..]) of the last n values built, in the order built.
CallList ==
    \E n \in 0..Len(stack) :
        /\ TotalSize(stack) < MaxNodes
        /\ stack' = Append(ButLastN(n), list(LastN(n)))
        /\ res' = Ret("list", LastN(n), null, list(LastN(n)))
        /\ UNCHANGED <<objectVars, attrVars>>

\* Value::object(vec![(k1, v1), ..].into_iter().collect()) of the last n
\* values built, under keys of one string-like type; the keys as written
\* may repeat.
CallObject ==
    \E n \in 0..Len(stack), kind \in KeyKinds :
        \E ks \in [1..n -> KeyTexts] :
            LET pairs == [j \in 1..n |-> <<KeyOf(kind, ks[j]), LastN(n)[j]>>]
                made  == object(Collect(pairs))
            IN  /\ TotalSize(stack) < MaxNodes
                /\ stack' = Append(ButLastN(n), made)
                /\ res' = Ret("object", pairs, null, made)
                /\ UNCHANGED <<objectVars, attrVars>>

CallIsNull ==
    /\ stack # <<>>
    /\ res' = Ret("is_null", Top, null, is_null(Top))
    /\ UNCHANGED <<stack, objectVars, attrVars>>

CallAsFloatValue ==
    /\ stack # <<>>
    /\ res' = Ret("as_float_value", Top, null, as_float_value(Top))
    /\ UNCHANGED <<stack, objectVars, attrVars>>

CallAsObjectValue ==
    /\ stack # <<>>
    /\ res' = Ret("as_object_value", Top, null, as_object_value(Top))
    /\ UNCHANGED <<stack, objectVars, attrVars>>

CallAsMutObjectValue ==
    /\ stack # <<>>
    /\ LET r == as_mut_object_value(Top)
       IN  /\ stack' = [stack EXCEPT ![Len(stack)] = r.self]
           /\ res' = Ret("as_mut_object_value", Top, null, r.out)
    /\ UNCHANGED <<objectVars, attrVars>>

CallAsListValue ==
    /\ stack # <<>>
    /\ res' = Ret("as_list_value", Top, null, as_list_value(Top))
    /\ UNCHANGED <<stack, objectVars, attrVars>>

CallAsStringValue ==
    /\ stack # <<>>
    /\ res' = Ret("as_string_value", Top, null, as_string_value(Top))
    /\ UNCHANGED <<stack, objectVars, attrVars>>

CallToInputValue ==
    /\ stack # <<>>
    /\ res' = Ret("to_input_value", Top, null, to_input_value(Top))
    /\ UNCHANGED <<stack, objectVars, attrVars>>

\* The InputValue just made is converted back to a Value.
ConvertBack ==
    /\ res.op = "to_input_value"
    /\ res' = Ret("round_trip", res.arg, res.out, from_input_value(res.out))
    /\ UNCHANGED <<stack, objectVars, attrVars>>

\* a == b on the newest value and itself or the one built before it.
CallEq ==
    /\ stack # <<>>
    /\ \E n \in {Len(stack) - 1, Len(stack)} :
          /\ n >= 1
          /\ res' = Ret("eq", stack[n], Top, ValueEq(stack[n], Top))
    /\ UNCHANGED <<stack, objectVars, attrVars>>

\* The newest value goes out of scope.
Drop ==
    /\ stack # <<>>
    /\ stack' = ButLastN(1)
    /\ res' = Ret("drop", null, null, null)
    /\ UNCHANGED <<objectVars, attrVars>>

NextValue ==
    \/ CallNull \/ CallInt \/ CallFloat \/ CallString \/ CallBoolean
    \/ CallFromI32 \/ CallFromF64
    \/ CallList \/ CallObject
    \/ CallIsNull \/ CallAsFloatValue \/ CallAsObjectValue
    \/ CallAsMutObjectValue \/ CallAsListValue \/ CallAsStringValue
    \/ CallToInputValue \/ ConvertBack \/ CallEq \/ Drop

SpecValue == InitValue /\ [][NextValue]_vars

(***************************************************************************)
(* The caller of graphql_value!                                            *)
(***************************************************************************)

\* A literal is written; nothing has been expanded yet.
InitMacro ==
    /\ stack = <<>>
    /\ res \in {Ret("written", w, null, None) : w \in Literals}
    /\ def = [fields |-> <<>>, interfaces |-> {}, name |-> "", ty |-> ""]
    /\ gen = NotExpanded
    /\ call = NoObjectCall
    /\ attrs = <<>>
    /\ parsed = NotParsed

\* graphql_value!(..) of the literal; the caller holds the value it gives.
CallGraphqlValue ==
    /\ res.op = "written"
    /\ LET out == graphql_value(res.arg.tokens)
       IN  /\ res' = Ret("graphql_value", res.arg, null, out)
           /\ stack' = IF out.some THEN <<out.val>> ELSE <<>>
    /\ UNCHANGED <<objectVars, attrVars>>

NextMacro == CallGraphqlValue

SpecMacro == InitMacro /\ [][NextMacro]_vars

(***************************************************************************)
(* The generated object under exercise                                     *)
(***************************************************************************)

InitObject ==
    /\ def \in Definitions
    /\ gen = NotExpanded
    /\ call = NoObjectCall
    /\ stack = <<>>
    /\ res = NoCall
    /\ attrs = <<>>
    /\ parsed = NotParsed

ToTokens ==
    \E iter \in IterOrders(def.interfaces) :
        /\ ~gen.expanded
        /\ gen' = to_tokens(def, iter)
        /\ UNCHANGED <<def, call, valueVars, attrVars>>

ResolveField ==
    \E via \in Vias, f \in FieldNames, c \in ContextSample, r \in ResolverResults :
        /\ Reachable(via)
        /\ call' = ObjectCall("resolve_field", f, c, via,
                              Taken(Matching(gen.graphql_value.resolve_field, f), r))
        /\ UNCHANGED <<def, gen, valueVars, attrVars>>

ResolveFieldAsync ==
    \E via \in Vias, f \in FieldNames, c \in ContextSample, r \in ResolverResults :
        /\ Reachable(via)
        /\ call' = ObjectCall("resolve_field_async", f, c, via,
                              Taken(Matching(gen.graphql_value_async.resolve_field_async, f), r))
        /\ UNCHANGED <<def, gen, valueVars, attrVars>>

\* <Self as GraphQLType>::name(info)
Name ==
    /\ Reachable("Self")
    /\ call' = ObjectCall("name", "", "", "Self", gen.graphql_type.name)
    /\ UNCHANGED <<def, gen, valueVars, attrVars>>

\* type_name(&self, info), which asks GraphQLType::name.
TypeName ==
    \E via \in Vias :
        /\ Reachable(via)
        /\ gen.graphql_value.type_name = "GraphQLType::name"
        /\ call' = ObjectCall("type_name", "", "", via, gen.graphql_type.name)
        /\ UNCHANGED <<def, gen, valueVars, attrVars>>

\* concrete_type_name(&self, _: &Context, _: &TypeInfo)
ConcreteTypeName ==
    \E via \in Vias, c \in ContextSample :
        /\ Reachable(via)
        /\ call' = ObjectCall("concrete_type_name", "", c, via,
                              gen.graphql_value.concrete_type_name)
        /\ UNCHANGED <<def, gen, valueVars, attrVars>>

NextObject == ToTokens \/ ResolveField \/ ResolveFieldAsync \/ Name \/ TypeName \/ ConcreteTypeName

SpecObject == InitObject /\ [][NextObject]_vars

(***************************************************************************)
(* Introspection of a schema that holds the object                         *)
(***************************************************************************)

\* The schema is introspected in a format the caller names, or in the
\* default one when it names none.
Introspect ==
    \E chosen \in {None} \cup {Some(f) : f \in IntrospectionFormat}, c \in ContextSample :
        LET format == IF chosen.some THEN chosen.val ELSE default
        IN  /\ Reachable("Self")
            /\ call' = ObjectCall("introspect", "", c, "Self",
                                  [chosen |-> chosen, format |-> format,
                                   query |-> introspection_query(format)])
            /\ UNCHANGED <<def, gen, valueVars, attrVars>>

NextIntrospection == ToTokens \/ Introspect

SpecIntrospection == InitObject /\ [][NextIntrospection]_vars

(***************************************************************************)
(* The expansion reading the attributes of an item                         *)
(***************************************************************************)

InitAttr ==
    /\ attrs \in Items
    /\ parsed = NotParsed
    /\ stack = <<>>
    /\ res = NoCall
    /\ def = [fields |-> <<>>, interfaces |-> {}, name |-> "", ty |-> ""]
    /\ gen = NotExpanded
    /\ call = NoObjectCall

\* Attr::from_attrs("graphql", &attrs)
FromAttrs ==
    /\ parsed = NotParsed
    /\ parsed' = from_attrs("graphql", attrs)
    /\ UNCHANGED <<attrs, valueVars, objectVars>>

NextAttr == FromAttrs

SpecAttr == InitAttr /\ [][NextAttr]_vars

(***************************************************************************)
(* The object registered in a schema                                       *)
(***************************************************************************)

\* <Self as GraphQLType>::meta(info, registry): the object type is built
\* and its interfaces, if any, are registered in the order generated.
Meta ==
    /\ Reachable("Self")
    /\ call' = ObjectCall("meta", "", "", "Self", gen.graphql_type.interfaces)
    /\ UNCHANGED <<def, gen, valueVars, attrVars>>

NextMeta == ToTokens \/ Meta

SpecMeta == InitObject /\ [][NextMeta]_vars

(***************************************************************************)
(* Properties of the Value model                                           *)
(***************************************************************************)

IsUnlocated(sp) == sp.start = Origin /\ sp.end = Origin

PairwiseDistinct(ks) == \A m, n \in DOMAIN ks : m # n => ks[m] # ks[n]

\* The key orders of all the objects inside v, outermost first.
RECURSIVE ObjKeySeqs(_)
ObjKeySeqs(v) ==
    CASE v.tag = "List"   ->
            (LET RECURSIVE Cat(_)
                 Cat(n) == IF n = 0 THEN <<>> ELSE Cat(n - 1) \o ObjKeySeqs(v.l[n])
             IN  Cat(Len(v.l)))
      [] v.tag = "Object" ->
            <<OrderMapKeys(v.o)>> \o
            (LET RECURSIVE Cat(_)
                 Cat(n) == IF n = 0 THEN <<>> ELSE Cat(n - 1) \o ObjKeySeqs(v.o[n][2])
             IN  Cat(Len(v.o)))
      [] OTHER            -> <<>>

RECURSIVE StackKeySeqs(_)
StackKeySeqs(s) == IF s = <<>> THEN <<>> ELSE ObjKeySeqs(Head(s)) \o StackKeySeqs(Tail(s))

C1_Built ==
    res.op = "object" /\ PairwiseDistinct([n \in DOMAIN res.arg |-> res.arg[n][1]]) =>
        /\ res.out.tag = "Object"
        /\ OrderMapKeys(res.out.o) = [n \in DOMAIN res.arg |-> res.arg[n][1].text]
        /\ \A n \in DOMAIN res.arg :
              OrderMapGet(res.out.o, res.arg[n][1].text) = res.arg[n][2]
        /\ Top = res.out

\* What one call does to the objects the caller already holds: a call other
\* than a drop leaves the key order of every one of them as it was, and
\* object() only moves the values it is given under the new keys.
C1_Step ==
    CASE res'.op = "drop"   -> TRUE
      [] res'.op = "object" ->
            /\ SubSeq(stack', 1, Len(stack') - 1) = SubSeq(stack, 1, Len(stack') - 1)
            /\ \A n \in DOMAIN res'.out.o :
                  \E m \in DOMAIN stack : stack[m] = res'.out.o[n][2]
      [] OTHER              -> StackKeySeqs(stack') = StackKeySeqs(stack)

\* C1: Value::object of pairs with pairwise distinct keys yields an Object
\* whose keys iterate in the order the pairs were supplied and whose value at
\* each key is the supplied one; and no call on a Value reorders the keys of
\* an Object that exists already.
C1_ObjectKeepsInsertionOrder == [](C1_Built) /\ [][C1_Step]_vars

\* An object was built from two pairs supplied in the order "b", "a".
C1_Witness ==
    /\ res.op = "object"
    /\ Len(res.arg) = 2
    /\ res.arg[1][1].text = "b"
    /\ res.arg[2][1].text = "a"
    /\ res.arg[1][2] # res.arg[2][2]

RECURSIVE HasNaN(_)
HasNaN(v) ==
    CASE v.tag = "Float"  -> v.f.kind = "nan"
      [] v.tag = "List"   -> \E n \in DOMAIN v.l : HasNaN(v.l[n])
      [] v.tag = "Object" -> \E n \in DOMAIN v.o : HasNaN(v.o[n][2])
      [] OTHER            -> FALSE

\* Every location of an InputValue tree is the origin.
RECURSIVE AllUnlocated(_)
AllUnlocated(iv) ==
    CASE iv.itag = "List"   ->
            \A n \in DOMAIN iv.l : IsUnlocated(iv.l[n]) /\ AllUnlocated(iv.l[n].item)
      [] iv.itag = "Object" ->
            \A n \in DOMAIN iv.o :
                /\ IsUnlocated(iv.o[n][1])
                /\ IsUnlocated(iv.o[n][2])
                /\ AllUnlocated(iv.o[n][2].item)
      [] OTHER              -> TRUE

\* C2: converting a Value with to_input_value and the InputValue back gives
\* the Value started from, variant by variant and payload by payload; the
\* InputValue in between carries no location but the absent one.  (Under ==
\* the result equals v whenever v equals itself, that is, unless v holds NaN.)
C2_RoundTrip ==
    res.op = "round_trip" =>
        /\ res.out = res.arg
        /\ AllUnlocated(res.arg2)
        /\ (~HasNaN(res.arg) => ValueEq(res.out, res.arg))

\* A two-key object whose keys are not in sorted order went there and back.
C2_Witness ==
    /\ res.op = "round_trip"
    /\ res.arg.tag = "Object"
    /\ Len(res.arg.o) = 2
    /\ res.arg.o[1][1] = "b"

RECURSIVE NoEnumNoVariable(_)
NoEnumNoVariable(iv) ==
    /\ iv.itag \notin {"Enum", "Variable"}
    /\ CASE iv.itag = "List"   -> \A n \in DOMAIN iv.l : NoEnumNoVariable(iv.l[n].item)
         [] iv.itag = "Object" -> \A n \in DOMAIN iv.o : NoEnumNoVariable(iv.o[n][2].item)
         [] OTHER              -> TRUE

\* iv is the InputValue of the variant parallel to v, with the same payload,
\* the same elements in the same order and the same keys in the same order,
\* each element, key and value wrapped as unlocated.
RECURSIVE Parallel(_, _)
Parallel(v, iv) ==
    /\ iv.itag = v.tag
    /\ CASE v.tag = "Null"    -> DOMAIN iv = {"itag"}
         [] v.tag = "Int"     -> iv.i = v.i
         [] v.tag = "Float"   -> iv.f = v.f
         [] v.tag = "String"  -> iv.s = v.s
         [] v.tag = "Boolean" -> iv.b = v.b
         [] v.tag = "List"    ->
               /\ Len(iv.l) = Len(v.l)
               /\ \A n \in DOMAIN v.l :
                     IsUnlocated(iv.l[n]) /\ Parallel(v.l[n], iv.l[n].item)
         [] v.tag = "Object"  ->
               /\ Len(iv.o) = Len(v.o)
               /\ \A n \in DOMAIN v.o :
                     /\ IsUnlocated(iv.o[n][1])
                     /\ iv.o[n][1].item = v.o[n][1]
                     /\ IsUnlocated(iv.o[n][2])
                     /\ Parallel(v.o[n][2], iv.o[n][2].item)

\* C3: to_input_value returns, for every Value at every depth, the
\* InputValue of the parallel variant, never an Enum or a Variable; elements,
\* keys and values are wrapped as unlocated, in the order of the input.
C3_ToInputValueParallel ==
    res.op = "to_input_value" =>
        /\ Parallel(res.arg, res.out)
        /\ NoEnumNoVariable(res.out)

\* A list of two different values, the first a container, was converted.
C3_Witness ==
    /\ res.op = "to_input_value"
    /\ res.arg.tag = "List"
    /\ Len(res.arg.l) = 2
    /\ res.arg.l[1].tag \in {"List", "Object"}
    /\ res.arg.l[2].tag = "String"

\* C8: each as_*_value accessor returns the payload exactly for its own
\* variant and None for every other one, is_null is true exactly for Null,
\* and the value the accessor was called on is the same afterwards.
C8_AccessorsFailSoft ==
    /\ res.op = "is_null" =>
          res.out = (res.arg.tag = "Null") /\ Top = res.arg
    /\ res.op = "as_float_value" =>
          /\ res.out = (IF res.arg.tag = "Float" THEN Some(res.arg.f) ELSE None)
          /\ Top = res.arg
    /\ res.op = "as_object_value" =>
          /\ res.out = (IF res.arg.tag = "Object" THEN Some(res.arg.o) ELSE None)
          /\ Top = res.arg
    /\ res.op = "as_mut_object_value" =>
          /\ res.out = (IF res.arg.tag = "Object" THEN Some(res.arg.o) ELSE None)
          /\ Top = res.arg
    /\ res.op = "as_list_value" =>
          /\ res.out = (IF res.arg.tag = "List" THEN Some(res.arg.l) ELSE None)
          /\ Top = res.arg
    /\ res.op = "as_string_value" =>
          /\ res.out = (IF res.arg.tag = "String" THEN Some(res.arg.s) ELSE None)
          /\ Top = res.arg

\* as_list_value was called on an Object and answered None.
C8_Witness ==
    /\ res.op = "as_list_value"
    /\ res.arg.tag = "Object"
    /\ Len(res.arg.o) = 1
    /\ res.out = None

\* C9: nothing converts between Int and Float: From<i32> gives Int and
\* From<f64> gives Float with the payload given, as_float_value of an Int is
\* None, to_input_value keeps Int as Int and Float as Float, and an Int never
\* equals a Float.
C9_NoIntFloatCoercion ==
    /\ res.op = "from_i32" => res.out = [i |-> res.arg.i32, tag |-> "Int"]
    /\ res.op = "from_f64" => res.out = [f |-> res.arg.f64, tag |-> "Float"]
    /\ res.op = "as_float_value" /\ res.arg.tag = "Int" => res.out = None
    /\ res.op = "to_input_value" /\ res.arg.tag = "Int" =>
          res.out = [i |-> res.arg.i, itag |-> "Int"]
    /\ res.op = "to_input_value" /\ res.arg.tag = "Float" =>
          res.out = [f |-> res.arg.f, itag |-> "Float"]
    /\ res.op = "eq" /\ {res.arg.tag, res.arg2.tag} = {"Int", "Float"} =>
          res.out = FALSE

\* Int(1) was compared with Float(1.0).
C9_Witness ==
    /\ res.op = "eq"
    /\ res.arg = [i |-> 1, tag |-> "Int"]
    /\ res.arg2 = [f |-> Fin(2), tag |-> "Float"]

\* Equality as the claim words it: same variant, equal payloads, lists by
\* position, objects by the same keys in the same order.
RECURSIVE OrderedStructEq(_, _)
OrderedStructEq(a, b) ==
    /\ a.tag = b.tag
    /\ CASE a.tag = "Float"  -> F64Eq(a.f, b.f)
         [] a.tag = "List"   ->
               /\ Len(a.l) = Len(b.l)
               /\ \A n \in DOMAIN a.l : OrderedStructEq(a.l[n], b.l[n])
         [] a.tag = "Object" ->
               /\ OrderMapKeys(a.o) = OrderMapKeys(b.o)
               /\ \A n \in DOMAIN a.o : OrderedStructEq(a.o[n][2], b.o[n][2])
         [] OTHER            -> a = b

\* The same, with objects compared as maps: the same set of keys, and equal
\* values under each key.
RECURSIVE UnorderedStructEq(_, _)
UnorderedStructEq(a, b) ==
    /\ a.tag = b.tag
    /\ CASE a.tag = "Float"  -> F64Eq(a.f, b.f)
         [] a.tag = "List"   ->
               /\ Len(a.l) = Len(b.l)
               /\ \A n \in DOMAIN a.l : UnorderedStructEq(a.l[n], b.l[n])
         [] a.tag = "Object" ->
               /\ {a.o[n][1] : n \in DOMAIN a.o} = {b.o[n][1] : n \in DOMAIN b.o}
               /\ \A m \in DOMAIN a.o, n \in DOMAIN b.o :
                     a.o[m][1] = b.o[n][1] => UnorderedStructEq(a.o[m][2], b.o[n][2])
         [] OTHER            -> a = b

\* C10 as stated: == is structural, objects being equal when they hold the
\* same keys in the same order with equal values.
C10_EqOrderSensitive ==
    res.op = "eq" => res.out = OrderedStructEq(res.arg, res.arg2)

\* C10, amended: == is structural: same variant and equal payloads (floats as
\* f64 compares them), lists by length and position, and objects equal when
\* they hold the same set of keys with equal values under each key, whatever
\* the order of the keys.
C10_EqStructural ==
    res.op = "eq" => res.out = UnorderedStructEq(res.arg, res.arg2)

\* Two objects with the same two entries in opposite orders compared equal,
\* and so did not two with different values.
C10_Witness ==
    /\ res.op = "eq"
    /\ res.arg.tag = "Object"
    /\ res.arg2.tag = "Object"
    /\ Len(res.arg.o) = 2
    /\ OrderMapKeys(res.arg.o) # OrderMapKeys(res.arg2.o)
    /\ res.out = TRUE

(***************************************************************************)
(* Properties of graphql_value!                                            *)
(***************************************************************************)

Resolving == call.fn \in {"resolve_field", "resolve_field_async"}

\* C4 as stated: resolving a name the object declares no field for, on the
\* sync or the async path, returns an error result for that field: the call
\* comes back with Err(field error), as data.
C4_UnknownFieldIsFieldError ==
    Resolving /\ call.field \notin DeclaredNames(def) =>
        /\ call.out.kind = "returned"
        /\ call.out.result.some
        /\ ~call.out.result.val.ok

\* C5: sync resolve_field called with the name of an async field takes the
\* async-field panic arm: no resolver has run and no ExecutionResult, Ok or
\* Err, comes back; and that arm is taken for the async names only.
C5_SyncOnAsyncFieldIsFatal ==
    call.fn = "resolve_field" =>
        /\ (call.out.kind = "panic" /\ call.out.about = "async_field")
              <=> call.field \in AsyncNames(def)
        /\ call.field \in AsyncNames(def) =>
              call.out.ran = "" /\ ~call.out.result.some

\* The object has an async field and a plain one, and the async one was
\* asked for on the sync path.
C5_Witness ==
    /\ call.fn = "resolve_field"
    /\ call.field \in AsyncNames(def)
    /\ DeclaredNames(def) \ AsyncNames(def) # {}
    /\ call.out.kind = "panic"

\* C6: the expansion of an object holds the AsDynGraphQLValue impl, with the
\* sync and the async dynamic view both being the value itself, exactly when
\* the object declares an interface: no implementer is left without it, so
\* a value reached through an interface always has the capability.
C6_AsDynIffInterfaces ==
    gen.expanded =>
        /\ gen.as_dyn.some <=> def.interfaces # {}
        /\ gen.as_dyn.some =>
              /\ gen.as_dyn.val.as_dyn_graphql_value = "self"
              /\ gen.as_dyn.val.as_dyn_graphql_value_async = "self"
        /\ \A i \in def.interfaces : gen.as_dyn.some

\* An implementer of two interfaces resolved a field through one of them.
C6_Witness ==
    /\ gen.expanded
    /\ def.interfaces = InterfaceSample
    /\ call.fn = "resolve_field_async"
    /\ call.via = "Node"
    /\ call.out.kind = "returned"

\* C7: GraphQLType::name, type_name and concrete_type_name all give the
\* object's GraphQL name, whatever the context and whichever type, its own
\* or an interface, the value is reached through.
C7_OneTypeName ==
    /\ call.fn = "name" => call.out = Some(def.name)
    /\ call.fn = "type_name" => call.out = Some(def.name)
    /\ call.fn = "concrete_type_name" => call.out = def.name

\* An object whose GraphQL name differs from its Rust type was asked its
\* concrete type name through an interface.
C7_Witness ==
    /\ call.fn = "concrete_type_name"
    /\ call.via = "Character"
    /\ call.ctx = "ctx2"
    /\ def.name # def.ty

(***************************************************************************)
(* Properties of the introspection formats                                 *)
(***************************************************************************)

\* C12: there are exactly two introspection formats, All and
\* WithoutDescriptions; with no format chosen the format is All; All runs
\* the document query.graphql and WithoutDescriptions the document
\* query_without_descriptions.graphql, two different documents.
C12_TwoFormatsDefaultAll ==
    /\ IntrospectionFormat = {"All", "WithoutDescriptions"}
    /\ Cardinality(IntrospectionFormat) = 2
    /\ call.fn = "introspect" =>
          /\ call.out.format \in IntrospectionFormat
          /\ ~call.out.chosen.some => call.out.format = "All"
          /\ call.out.chosen.some => call.out.format = call.out.chosen.val
          /\ call.out.format = "All" =>
                call.out.query.path = "./query.graphql"
          /\ call.out.format = "WithoutDescriptions" =>
                call.out.query.path = "./query_without_descriptions.graphql"

\* A schema is introspected with no format named.
C12_Witness ==
    /\ call.fn = "introspect"
    /\ ~call.out.chosen.some
    /\ call.out.query = INTROSPECTION_QUERY
    /\ def.fields # <<>>

(***************************************************************************)
(* Properties of Attr::parse, Attr::try_merge and Attr::from_attrs         *)
(***************************************************************************)

\* The arguments written on the item, over all of its #[graphql] attributes.
RECURSIVE ArgsWritten(_)
ArgsWritten(as) ==
    IF as = <<>> THEN <<>>
    ELSE (IF Head(as).path = "graphql" THEN Head(as).args ELSE <<>>) \o ArgsWritten(Tail(as))

\* The Attr field an argument name stands for.
FieldOf(ident) ==
    CASE ident = "name"                                -> "name"
      [] ident \in {"desc", "description"}             -> "description"
      [] ident \in {"ctx", "context", "Context"}       -> "context"
      [] ident \in {"scalar", "Scalar", "ScalarValue"} -> "scalar"
      [] ident \in {"impl", "implements", "interfaces"} -> "interfaces"
      [] ident = "rename_all"                          -> "rename_fields"
      [] ident = "internal"                            -> "is_internal"
      [] OTHER                                         -> "unknown"

Given(args, field) == {n \in DOMAIN args : FieldOf(args[n].ident) = field}

\* The interface types listed, in the order written.
RECURSIVE InterfacesListed(_)
InterfacesListed(args) ==
    IF args = <<>> THEN <<>>
    ELSE (IF FieldOf(Head(args).ident) = "interfaces" THEN Head(args).val ELSE <<>>)
         \o InterfacesListed(Tail(args))

SingleValued == {"name", "description", "context", "scalar", "rename_fields"}

HasDuplicate(args) ==
    \/ \E f \in SingleValued : Cardinality(Given(args, f)) > 1
    \/ ~PairwiseDistinct(InterfacesListed(args))

HasUnknown(args) == Given(args, "unknown") # {}

\* C13: an argument among name, description, context, scalar and rename_all
\* given more than once, under any of its aliases, in one attribute or over
\* several, and an interface type listed twice, are a duplicate-argument
\* error; a successful parse holds each value as it was given, never one
\* written over another; `internal` may repeat and is_internal is the OR.
C13_DuplicatesRejected ==
    parsed # NotParsed =>
        LET args == ArgsWritten(attrs)
        IN  /\ HasDuplicate(args) => ~parsed.ok
            /\ HasDuplicate(args) /\ ~HasUnknown(args) => parsed.err = dup_arg
            /\ ~HasDuplicate(args) /\ ~HasUnknown(args) => parsed.ok
            /\ parsed.ok =>
                  /\ \A f \in SingleValued : \A n \in Given(args, f) :
                        parsed.val[f] = Some(SpanContainer(args[n].ident, args[n].val))
                  /\ {x.val : x \in parsed.val.interfaces}
                        = {InterfacesListed(args)[n] : n \in DOMAIN InterfacesListed(args)}
                  /\ Cardinality(parsed.val.interfaces) = Len(InterfacesListed(args))
                  /\ parsed.val.is_internal <=> Given(args, "is_internal") # {}

\* The description is given as desc in one attribute and as description in
\* the next one.
C13_Witness ==
    /\ parsed # NotParsed
    /\ ~parsed.ok
    /\ parsed.err = dup_arg
    /\ Len(attrs) = 2
    /\ attrs[1].args = <<Arg("desc", "by desc")>>
    /\ attrs[2].args = <<Arg("description", "by description")>>

\* C14: from_attrs takes the description from the doc comment only when no
\* attribute gives one: a description given explicitly wins over the doc
\* comment, and with neither the description is absent.
C14_ExplicitDescriptionWins ==
    parsed # NotParsed /\ parsed.ok =>
        LET args     == ArgsWritten(attrs)
            explicit == Given(args, "description")
            IsDoc(a) == a.path = "doc"
            docs     == SelectSeq(attrs, IsDoc)
        IN  /\ explicit # {} =>
                  \A n \in explicit :
                      parsed.val.description = Some(SpanContainer(args[n].ident, args[n].val))
            /\ explicit = {} /\ docs # <<>> =>
                  /\ parsed.val.description.some
                  /\ parsed.val.description.val.val = docs[1].text
            /\ explicit = {} /\ docs = <<>> => parsed.val.description = None

\* An item with a doc comment and an explicit description.
C14_Witness ==
    /\ parsed # NotParsed
    /\ parsed.ok
    /\ \E n \in DOMAIN attrs : attrs[n].path = "doc"
    /\ Given(ArgsWritten(attrs), "description") # {}
    /\ parsed.val.description.val.val = "by desc"

(***************************************************************************)
(* Properties of the generated meta                                        *)
(***************************************************************************)

\* The one sequence that holds each element of S once, in the order of the
\* texts.
SortedByText(S) ==
    CHOOSE q \in IterOrders(S) : \A a, b \in DOMAIN q : a < b => TextLess(q[a], q[b])

\* C15: the interfaces of an object are registered in an order that only
\* the set of declared interfaces decides, the interface types sorted by
\* their text, whatever order the hash set yields them in; with no
\* interface declared no .interfaces call is made.
C15_InterfacesRegisteredSorted ==
    /\ gen.expanded =>
          gen.graphql_type.interfaces =
              IF def.interfaces = {} THEN None ELSE Some(SortedByText(def.interfaces))
    /\ call.fn = "meta" =>
          call.out = IF def.interfaces = {} THEN None ELSE Some(SortedByText(def.interfaces))

\* An object of two interfaces is registered.
C15_Witness ==
    /\ call.fn = "meta"
    /\ def.interfaces = {"Node", "Character"}
    /\ call.out = Some(<<"Character", "Node">>)

(***************************************************************************)
(* Properties of the generated dispatch                                    *)
(***************************************************************************)

\* The names that the arms of one kind cover, and how many such arms
\* there are.
NamesOf(arms, body) == UNION {arms[n].names : n \in {m \in DOMAIN arms : arms[m].body = body}}

CountOf(arms, body) == Cardinality({m \in DOMAIN arms : arms[m].body = body})

\* C16: the generated dispatch partitions the field names: resolve_field_async
\* has one resolver arm for every declared field, async or not; resolve_field
\* has resolver arms for exactly the fields that are not async and one
\* async-field arm naming exactly the async ones, left out when there is
\* none; both end in the unknown-field arm, which a call reaches exactly
\* when the name asked for is not declared.
C16_DispatchPartitionsFieldNames ==
    /\ gen.expanded =>
          LET sync  == gen.graphql_value.resolve_field
              async == gen.graphql_value_async.resolve_field_async
          IN  /\ NamesOf(async, "resolve") = DeclaredNames(def)
              /\ CountOf(async, "resolve") = Len(def.fields)
              /\ CountOf(async, "panic_async_field") = 0
              /\ NamesOf(sync, "resolve") = DeclaredNames(def) \ AsyncNames(def)
              /\ CountOf(sync, "resolve") = Cardinality(DeclaredNames(def) \ AsyncNames(def))
              /\ NamesOf(sync, "panic_async_field") = AsyncNames(def)
              /\ CountOf(sync, "panic_async_field") = IF AsyncNames(def) = {} THEN 0 ELSE 1
              /\ \A arms \in {sync, async} :
                    /\ arms[Len(arms)].wild
                    /\ CountOf(arms, "panic_no_field") = 1
                    /\ \A n \in 1..(Len(arms) - 1) : ~arms[n].wild
    /\ Resolving =>
          /\ (call.out.kind = "panic" /\ call.out.about = "no_field")
                <=> call.field \notin DeclaredNames(def)
          /\ call.fn = "resolve_field_async" /\ call.field \in DeclaredNames(def) =>
                call.out.kind = "returned" /\ call.out.ran = call.field
          /\ call.fn = "resolve_field" /\ call.field \in DeclaredNames(def) \ AsyncNames(def) =>
                call.out.kind = "returned" /\ call.out.ran = call.field

\* The object has an async field and a plain one; the async one was asked
\* for on the async path and its resolver ran.
C16_Witness ==
    /\ call.fn = "resolve_field_async"
    /\ call.field \in AsyncNames(def)
    /\ DeclaredNames(def) \ AsyncNames(def) # {}
    /\ call.out.kind = "returned"
    /\ call.out.ran = call.field

====
